---- MODULE Spec2Model ----
(***************************************************************************)
(* kmeRS: parallel k-mer counting (src/main.rs).                           *)
(*                                                                         *)
(* A string is a sequence of one-character strings, so that it can be      *)
(* sliced; a HashMap<String, u32> is a function from k-mers to counts.     *)
(* The coordinator (count_kmers) reads the input file line by line, hands  *)
(* the sequences to the worker pool (rayon's par_iter().for_each), and     *)
(* returns the global map after the pool has joined.                       *)
(***************************************************************************)
EXTENDS Integers, Sequences, FiniteSets, TLC

VARIABLES
    file,              \* [path, lines]: the input file (args[1])
    k,                 \* k-mer length (args[2])
    threads,           \* worker-pool size (args[3])
    pc,                \* position of the coordinator in count_kmers
    failure,           \* why the coordinator panicked ("none" while it has not)
    li,                \* index of the next line the reader yields
    current_sequence,  \* scratch buffer of the reader
    read,              \* FASTQ reader: inside the sequence part of a record
    sequences,         \* Vec<String> returned by get_sequences
    kmer_hashmap,      \* the global map inside the Mutex
    lockHolder,        \* worker holding the Mutex, 0 when it is free
    poisoned,          \* the Mutex was poisoned by a panic under the lock
    progress,          \* AtomicUsize progress
    printed,           \* milestone value -> number of times it was printed
    chunk,             \* worker -> [lo, hi]: the index range it iterates
    worker,            \* worker -> its position and the closure's locals
    folded,            \* indices of the units whose closure body has ended
    result             \* the HashMap count_kmers returned

vars == << file, k, threads, pc, failure, li, current_sequence, read, sequences,
           kmer_hashmap, lockHolder, poisoned, progress, printed, chunk, worker,
           folded, result >>

readerVars == << li, current_sequence, read, sequences >>
poolVars == << kmer_hashmap, lockHolder, poisoned, progress, printed, chunk,
               worker, folded, result >>
inputVars == << file, k, threads >>

-----------------------------------------------------------------------------
(* Bounds of the model.                                                    *)

MaxK == 2
MaxThreads == 2
MaxLines == 4

-----------------------------------------------------------------------------
(* Input files.                                                            *)

AT == << "A", "T" >>
TA == << "T", "A" >>
AA == << "A", "A" >>
TT == << "T", "T" >>
AAT == << "A", "A", "T" >>
ATA == << "A", "T", "A" >>
TTA == << "T", "T", "A" >>
AAAA == << "A", "A", "A", "A" >>
TAAA == << "T", "A", "A", "A" >>
ACGT == << "A", "C", "G", "T" >>
Hdr == << ">", "r" >>
FastaPath == << "x", ".", "f", "a" >>
FastqPath == << "x", ".", "f", "q" >>
TextPath == << "x", ".", "t" >>

\* An empty file.
EmptyFasta == [path |-> FastaPath, lines |-> << >>]
\* A file of marker lines and empty lines only: it yields no record.
HeaderOnlyFasta == [path |-> FastaPath, lines |-> << Hdr, << >>, Hdr >>]
\* One record, "AAAA".
OneFasta == [path |-> FastaPath, lines |-> << Hdr, AAAA >>]
\* Two records, "AAAA" and "TAAA".
TwoFasta == [path |-> FastaPath, lines |-> << Hdr, AAAA, Hdr, TAAA >>]
\* Ten records of length 2 or 3; the third record spans two lines.
TenFasta ==
    [path |-> FastaPath,
     lines |-> << Hdr, AT, Hdr, TA, Hdr, AA, << "T" >>, Hdr, AT, Hdr, TTA,
                  Hdr, AA, Hdr, AT, Hdr, TA, Hdr, ATA, Hdr, TT >>]
\* Ten records, the fourth of length 1.
TenShortFasta ==
    [path |-> FastaPath,
     lines |-> << Hdr, AAT, Hdr, AT, Hdr, TA, Hdr, << "A" >>, Hdr, ATA, Hdr, AT,
                  Hdr, TTA, Hdr, AT, Hdr, AT, Hdr, TA >>]
\* One FASTQ record: identifier, sequence, separator, quality.
OneFastq ==
    [path |-> FastqPath,
     lines |-> << << "@", "r" >>, ACGT, << "+" >>, << "I", "I", "I", "I" >> >>]
\* A file whose name ends neither in a nor in q.
OtherFile == [path |-> TextPath, lines |-> << Hdr, AT >>]

\* Eleven records of length 2: the total is no multiple of ten.
ElevenFasta ==
    [path |-> FastaPath,
     lines |-> << Hdr, AT, Hdr, TA, Hdr, AT, Hdr, AA, Hdr, AT, Hdr, TA,
                  Hdr, AT, Hdr, TT, Hdr, AT, Hdr, TA, Hdr, AT >>]
\* Paths whose last character differs from their other characters.
QaFasta == [path |-> << "q", ".", "a" >>, lines |-> << Hdr, AT >>]
AqFastq == [path |-> << "a", ".", "q" >>, lines |-> << << "@", "r" >>, AT, << "+" >>, TT >>]
AqOther == [path |-> << "a", "q", ".", "t" >>, lines |-> << Hdr, AT >>]
NoPath == [path |-> << >>, lines |-> << >>]

Files == { EmptyFasta, HeaderOnlyFasta, OneFasta, TwoFasta, TenFasta,
           TenShortFasta, ElevenFasta, OneFastq, OtherFile, QaFasta, AqFastq,
           AqOther, NoPath }

-----------------------------------------------------------------------------
(* Strings and maps.                                                       *)

\* str::starts_with for a one-character pattern
starts_with(line, c) == Len(line) > 0 /\ line[1] = c

\* str::contains for a one-character pattern
contains(s, c) == \E i \in 1..Len(s) : s[i] = c

\* str::ends_with for a one-character pattern
ends_with(s, c) == Len(s) > 0 /\ s[Len(s)] = c

\* HashMap::new()
EmptyMap == [x \in {} |-> 0]

\* the entry taken as absent whatever the map holds: map.insert(key, ...)
entry_fresh(map, key) == 0

\* *map.entry(key).or_insert(0): the count stored under key, 0 when absent
entry_or_insert(map, key) == IF key \in DOMAIN map THEN map[key] ELSE 0

\* the map with key bound to v
Insert(map, key, v) == [x \in DOMAIN map \cup {key} |-> IF x = key THEN v ELSE map[x]]

\* the map without key
Remove(map, key) == [x \in DOMAIN map \ {key} |-> map[x]]

-----------------------------------------------------------------------------
(* Sequence Source: get_sequences and the two readers.                     *)

Init ==
    /\ file \in Files
    /\ k \in 1..MaxK
    /\ threads \in 1..MaxThreads
    /\ pc = "get_sequences"
    /\ failure = "none"
    /\ li = 1
    /\ current_sequence = << >>
    /\ read = FALSE
    /\ sequences = << >>
    /\ kmer_hashmap = EmptyMap
    /\ lockHolder = 0
    /\ poisoned = FALSE
    /\ progress = 0
    /\ printed = EmptyMap
    /\ chunk = << >>
    /\ worker = << >>
    /\ folded = {}
    /\ result = EmptyMap

\* get_sequences: the reader is chosen by the last character of the path;
\* any other path panics.
GetSequences ==
    /\ pc = "get_sequences"
    /\ IF ends_with(file.path, "a")
         THEN pc' = "fasta" /\ UNCHANGED failure
         ELSE IF ends_with(file.path, "q")
                THEN pc' = "fastq" /\ UNCHANGED failure
                ELSE pc' = "panicked" /\ failure' = "format"
    /\ UNCHANGED << inputVars, readerVars, poolVars >>

\* the loop body without current_sequence.clear()
FastaLineNoClear ==
    /\ pc = "fasta"
    /\ li <= Len(file.lines)
    /\ LET line == file.lines[li] IN
         IF starts_with(line, ">")
           THEN /\ sequences' = IF current_sequence # << >>
                                  THEN Append(sequences, current_sequence)
                                  ELSE sequences
                /\ UNCHANGED current_sequence
           ELSE /\ current_sequence' = current_sequence \o line
                /\ UNCHANGED sequences
    /\ li' = li + 1
    /\ UNCHANGED << inputVars, pc, failure, read, poolVars >>

\* get_sequences_from_fasta, one iteration of the loop over the lines
FastaLine ==
    /\ pc = "fasta"
    /\ li <= Len(file.lines)
    /\ LET line == file.lines[li] IN
         IF starts_with(line, ">")
           THEN IF current_sequence # << >>
                  THEN /\ sequences' = Append(sequences, current_sequence)
                       /\ current_sequence' = << >>
                  ELSE UNCHANGED << sequences, current_sequence >>
           ELSE /\ current_sequence' = current_sequence \o line
                /\ UNCHANGED sequences
    /\ li' = li + 1
    /\ UNCHANGED << inputVars, pc, failure, read, poolVars >>

\* the last record pushed without the emptiness test
FastaFlushAlways(seqs, cur) == Append(seqs, cur)

\* get_sequences_from_fasta after the loop: the last record is pushed unless
\* it is empty
FastaFlush(seqs, cur) == IF cur # << >> THEN Append(seqs, cur) ELSE seqs

\* get_sequences_from_fasta returns; count_kmers goes on to the dispatch
FastaEnd ==
    /\ pc = "fasta"
    /\ li > Len(file.lines)
    /\ sequences' = FastaFlush(sequences, current_sequence)
    /\ pc' = "dispatch"
    /\ UNCHANGED << inputVars, failure, li, current_sequence, read, poolVars >>

\* get_sequences_from_fastq, one iteration of the loop over the lines: the
\* result list is never pushed to
FastqLine ==
    /\ pc = "fastq"
    /\ li <= Len(file.lines)
    /\ LET line == file.lines[li]
           read1 == IF starts_with(line, "@") THEN TRUE ELSE read
           plus == starts_with(line, "+")
           read2 == IF plus THEN FALSE ELSE read1
           cur1 == IF plus THEN << >> ELSE current_sequence
       IN  /\ read' = read2
           /\ current_sequence' = IF read2 THEN cur1 \o line ELSE cur1
    /\ li' = li + 1
    /\ UNCHANGED << inputVars, pc, failure, sequences, poolVars >>

\* get_sequences_from_fastq returns the list it created
FastqEnd ==
    /\ pc = "fastq"
    /\ li > Len(file.lines)
    /\ pc' = "dispatch"
    /\ UNCHANGED << inputVars, failure, readerVars, poolVars >>

-----------------------------------------------------------------------------
(* Shard Counter: the window loop of the closure body.                     *)

\* the exclusive upper end of the offset range, 0..(sequence.len() - k)
range_end(n, kk) == n - kk

\* the loop over the offsets j (0-based) from j up to end, exclusive:
\* *local_map.entry(sequence[j..j + k]).or_insert(0) += 1
RECURSIVE count_loop(_, _, _, _, _)
count_loop(s, kk, j, end, map) ==
    IF j >= end
      THEN map
      ELSE LET key == SubSeq(s, j + 1, j + kk)
           IN  count_loop(s, kk, j + 1, end,
                          Insert(map, key, entry_or_insert(map, key) + 1))

\* the local map the closure builds for one sequence
local_count(s, kk) == count_loop(s, kk, 0, range_end(Len(s), kk), EmptyMap)

\* sequence.len() - k is a usize subtraction: with k > len it panics in a
\* debug build, and in a release build it wraps to a huge bound and the first
\* slice sequence[0..k] panics, being out of bounds
range_faults(s, kk) == kk > Len(s)

-----------------------------------------------------------------------------
(* Merge Coordinator: par_iter().enumerate().for_each over the sequences.  *)
(* The pool splits the index range 0..N into contiguous ranges; each worker *)
(* iterates its range in order and runs the closure on every element.  A   *)
(* panic in the closure unwinds the worker's loop (the rest of its range   *)
(* is not run); for_each waits for the other workers and then resumes the  *)
(* panic in the caller.  Units are numbered from 1.                        *)

Workers == 1..threads

\* the ways to cut 1..n into w contiguous ranges: b[t-1]+1..b[t] is worker t's
Partitions(n, w) ==
    { b \in [0..w -> 0..n] :
        /\ b[0] = 0
        /\ b[w] = n
        /\ \A t \in 1..w : b[t - 1] <= b[t] }

\* a worker about to run the closure on unit i, or finished when none is left
Idle(i, hi) ==
    [pc |-> IF i > hi THEN "finished" ELSE "next", i |-> i, local_map |-> EmptyMap,
     key |-> << >>, value |-> 0, cur |-> 0, fault |-> "none"]

\* a worker whose closure panicked at unit i
Panicked(i, why) ==
    [pc |-> "panicked", i |-> i, local_map |-> EmptyMap,
     key |-> << >>, value |-> 0, cur |-> 0, fault |-> why]

\* sequences.par_iter().enumerate().for_each(...)
Dispatch ==
    /\ pc = "dispatch"
    /\ \E b \in Partitions(Len(sequences), threads) :
         /\ chunk' = [t \in Workers |-> [lo |-> b[t - 1] + 1, hi |-> b[t]]]
         /\ worker' = [t \in Workers |-> Idle(b[t - 1] + 1, b[t])]
    /\ pc' = "for_each"
    /\ UNCHANGED << inputVars, failure, readerVars, kmer_hashmap, lockHolder,
                    poisoned, progress, printed, folded, result >>

\* the divisor rounded up in place of down
milestone_step_ceil(total) == (total + 9) \div 10

\* the divisor of the milestone test, sequences.len()/10
milestone_step(total) == total \div 10

\* the closure up to the milestone: local_map is created,
\* total_progress = progress.fetch_add(1, Relaxed) + 1, and total_progress
\* is printed when the divisor divides it; a divisor of zero panics.  The
\* test and the println touch nothing another worker reads, so they are taken
\* in the step of the fetch_add.
Progress(t) ==
    /\ pc = "for_each"
    /\ worker[t].pc = "next"
    /\ progress' = progress + 1
    /\ LET total_progress == progress + 1
           step == milestone_step(Len(sequences))
       IN  IF step = 0
             THEN /\ worker' = [worker EXCEPT ![t] = Panicked(@.i, "div_zero")]
                  /\ poisoned' = (poisoned \/ lockHolder = t)
                  /\ UNCHANGED printed
             ELSE /\ worker' = [worker EXCEPT ![t].pc = "count"]
                  /\ printed' = IF total_progress % step = 0
                                  THEN Insert(printed, total_progress,
                                              entry_or_insert(printed, total_progress) + 1)
                                  ELSE printed
                  /\ UNCHANGED poisoned
    /\ UNCHANGED << inputVars, pc, failure, readerVars, kmer_hashmap, lockHolder,
                    chunk, folded, result >>

\* the window loop run with the guard taken first: lock() moved to the top of
\* the closure
CountLocked(t) ==
    /\ pc = "for_each"
    /\ worker[t].pc = "count"
    /\ lockHolder = 0
    /\ LET sequence == sequences[worker[t].i]
       IN  IF range_faults(sequence, k)
             THEN /\ worker' = [worker EXCEPT ![t] = Panicked(@.i, "range")]
                  /\ poisoned' = TRUE
                  /\ UNCHANGED lockHolder
             ELSE /\ worker' = [worker EXCEPT ![t].pc = "fold",
                                              ![t].local_map = local_count(sequence, k)]
                  /\ lockHolder' = t
                  /\ UNCHANGED poisoned
    /\ UNCHANGED << inputVars, pc, failure, readerVars, kmer_hashmap,
                    progress, printed, chunk, folded, result >>

\* the window loop: the local map is built, or the range computation panics
Count(t) ==
    /\ pc = "for_each"
    /\ worker[t].pc = "count"
    /\ LET sequence == sequences[worker[t].i]
       IN  IF range_faults(sequence, k)
             THEN /\ worker' = [worker EXCEPT ![t] = Panicked(@.i, "range")]
                  /\ poisoned' = (poisoned \/ lockHolder = t)
             ELSE /\ worker' = [worker EXCEPT ![t].pc = "lock",
                                              ![t].local_map = local_count(sequence, k)]
                  /\ UNCHANGED poisoned
    /\ UNCHANGED << inputVars, pc, failure, readerVars, kmer_hashmap, lockHolder,
                    progress, printed, chunk, folded, result >>

\* a mutex that excludes nobody: every lock() succeeds at once
MutexAlwaysFree == TRUE

\* Mutex::lock succeeds only while no other thread holds the guard
MutexFree == lockHolder = 0

\* kmer_hashmap.lock().unwrap(): blocks until the mutex is free; a poisoned
\* mutex makes unwrap panic
Lock(t) ==
    /\ pc = "for_each"
    /\ worker[t].pc = "lock"
    /\ MutexFree
    /\ IF poisoned
         THEN /\ worker' = [worker EXCEPT ![t] = Panicked(@.i, "poisoned")]
              /\ UNCHANGED lockHolder
         ELSE /\ worker' = [worker EXCEPT ![t].pc = "fold"]
              /\ lockHolder' = t
    /\ UNCHANGED << inputVars, pc, failure, readerVars, kmer_hashmap, poisoned,
                    progress, printed, chunk, folded, result >>

\* the fold loop takes the next (key, value) of local_map, in the HashMap's
\* arbitrary order, and reads the global entry (0 when absent).  The 0 that
\* or_insert stores for an absent key lives only inside the statement, which
\* overwrites it by the sum: the map is changed in FoldAdd.
FoldEntry(t) ==
    /\ pc = "for_each"
    /\ worker[t].pc = "fold"
    /\ \E key \in DOMAIN worker[t].local_map :
         worker' = [worker EXCEPT ![t].pc = "add",
                                  ![t].key = key,
                                  ![t].value = worker[t].local_map[key],
                                  ![t].cur = entry_or_insert(kmer_hashmap, key),
                                  ![t].local_map = Remove(@, key)]
    /\ UNCHANGED << inputVars, pc, failure, readerVars, kmer_hashmap, lockHolder,
                    poisoned, progress, printed, chunk, folded, result >>

\* = value in place of += value
add_overwrite(cur, value) == value

\* the addition left out: the entry keeps what or_insert gave
add_none(cur, value) == cur

\* the new count of an entry: cur += value
add_assign(cur, value) == cur + value

\* ... += value: the sum is stored in the global entry
FoldAdd(t) ==
    /\ pc = "for_each"
    /\ worker[t].pc = "add"
    /\ kmer_hashmap' = Insert(kmer_hashmap, worker[t].key,
                              add_assign(worker[t].cur, worker[t].value))
    /\ worker' = [worker EXCEPT ![t].pc = "fold", ![t].key = << >>,
                                ![t].value = 0, ![t].cur = 0]
    /\ UNCHANGED << inputVars, pc, failure, readerVars, lockHolder, poisoned,
                    progress, printed, chunk, folded, result >>

\* the closure ends with the guard leaked (mem::forget): the mutex stays
\* locked
UnlockLeaked(t) ==
    /\ pc = "for_each"
    /\ worker[t].pc = "fold"
    /\ worker[t].local_map = EmptyMap
    /\ folded' = folded \cup {worker[t].i}
    /\ worker' = [worker EXCEPT ![t] = Idle(@.i + 1, chunk[t].hi)]
    /\ UNCHANGED << inputVars, pc, failure, readerVars, kmer_hashmap, lockHolder,
                    poisoned, progress, printed, chunk, result >>

\* the closure ends: the guard is dropped, and the worker goes on to the next
\* element of its range
Unlock(t) ==
    /\ pc = "for_each"
    /\ worker[t].pc = "fold"
    /\ worker[t].local_map = EmptyMap
    /\ lockHolder' = IF lockHolder = t THEN 0 ELSE lockHolder
    /\ folded' = folded \cup {worker[t].i}
    /\ worker' = [worker EXCEPT ![t] = Idle(@.i + 1, chunk[t].hi)]
    /\ UNCHANGED << inputVars, pc, failure, readerVars, kmer_hashmap, poisoned,
                    progress, printed, chunk, result >>

\* a join that waits for one worker only
JoinedAny == \E t \in Workers : worker[t].pc \in {"finished", "panicked"}

\* for_each is over once every worker has left its loop
Joined == \A t \in Workers : worker[t].pc \in {"finished", "panicked"}

\* a join that swallows the workers' panics
PanicsIgnored == FALSE

\* some closure panicked
AnyPanicked == \E t \in Workers : worker[t].pc = "panicked"

\* for_each returns or resumes a worker's panic; on return
\* Mutex::into_inner(kmer_hashmap).unwrap() yields the map
Join ==
    /\ pc = "for_each"
    /\ Joined
    /\ IF AnyPanicked \/ poisoned
         THEN pc' = "panicked" /\ failure' = "worker" /\ UNCHANGED result
         ELSE pc' = "returned" /\ result' = kmer_hashmap /\ UNCHANGED failure
    /\ UNCHANGED << inputVars, readerVars, kmer_hashmap, lockHolder, poisoned,
                    progress, printed, chunk, worker, folded >>

Next ==
    \/ GetSequences
    \/ FastaLine
    \/ FastaEnd
    \/ FastqLine
    \/ FastqEnd
    \/ Dispatch
    \/ \E t \in Workers : Progress(t)
    \/ \E t \in Workers : Count(t)
    \/ \E t \in Workers : Lock(t)
    \/ \E t \in Workers : FoldEntry(t)
    \/ \E t \in Workers : FoldAdd(t)
    \/ \E t \in Workers : Unlock(t)
    \/ Join

Spec == Init /\ [][Next]_vars

\* The coordinator and the pool's threads are OS threads: a thread that can
\* take a step is scheduled in the end.  Every step moves the run forward, so
\* no behaviour has infinitely many steps and weak fairness of Next is all
\* that termination needs.
\* The runs of the fault-free ten-record file, and of the FASTQ file.
InitFair == Init /\ file \in {TenFasta, OneFastq}

FairSpec == InitFair /\ [][Next]_vars /\ WF_vars(Next)

-----------------------------------------------------------------------------
(* The readers alone, over every file of at most MaxLines lines drawn from  *)
(* ReaderLines.                                                            *)

ReaderLines == { << >>, << ">" >>, << "A" >>, << "T" >>, << "@" >>, << "+" >> }

ReaderFiles ==
    UNION { [path : {FastaPath, FastqPath}, lines : [1..n -> ReaderLines]] :
              n \in 0..MaxLines }

InitReader ==
    /\ file \in ReaderFiles
    /\ k = 1
    /\ threads = 1
    /\ pc = "get_sequences"
    /\ failure = "none"
    /\ li = 1
    /\ current_sequence = << >>
    /\ read = FALSE
    /\ sequences = << >>
    /\ kmer_hashmap = EmptyMap
    /\ lockHolder = 0
    /\ poisoned = FALSE
    /\ progress = 0
    /\ printed = EmptyMap
    /\ chunk = << >>
    /\ worker = << >>
    /\ folded = {}
    /\ result = EmptyMap

NextReader ==
    \/ GetSequences
    \/ FastaLine
    \/ FastaEnd
    \/ FastqLine
    \/ FastqEnd

SpecReader == InitReader /\ [][NextReader]_vars

-----------------------------------------------------------------------------
(* What the claims compare the program with.                               *)

N == Len(sequences)
Units == 1..N

\* the coordinator is past the reader
ReadDone == pc \in {"dispatch", "for_each", "returned"} \/ failure = "worker"

\* the run is over
RunOver == pc = "returned" \/ failure = "worker"

\* a worker is inside the fold, between lock() and the drop of the guard
InFold(t) == worker[t].pc \in {"fold", "add"}

Get(map, key) == IF key \in DOMAIN map THEN map[key] ELSE 0

\* key-wise sum of two maps
Merge(a, b) == [x \in DOMAIN a \cup DOMAIN b |-> Get(a, x) + Get(b, x)]

\* key-wise sum of the local maps of the units in S
RECURSIVE SumLocal(_)
SumLocal(S) ==
    IF S = {}
      THEN EmptyMap
      ELSE LET i == CHOOSE x \in S : TRUE
           IN  Merge(SumLocal(S \ {i}), local_count(sequences[i], k))

\* the sequences processed one at a time in the given order
RECURSIVE Sequential(_, _)
Sequential(order, n) ==
    IF n = 0
      THEN EmptyMap
      ELSE Merge(Sequential(order, n - 1), local_count(sequences[order[n]], k))

\* orders of the units: every rotation, every reversed rotation, and the
\* odd units before the even ones
Orders ==
    { [i \in Units |-> ((i + r) % N) + 1] : r \in 0..(N - 1) }
    \cup { [i \in Units |-> ((N - i + r) % N) + 1] : r \in 0..(N - 1) }
    \cup { [i \in Units |-> IF 2 * i - 1 <= N THEN 2 * i - 1
                            ELSE 2 * (i - (N + 1) \div 2)] }

\* the offsets (0-based) of the full-length windows of a sequence, the upper
\* offset len - k included
Windows(s, kk) == 0..(Len(s) - kk)

\* the pairs (sequence, offset) of the input
Positions == UNION { { << i, j >> : j \in Windows(sequences[i], k) } : i \in Units }

\* the k-mer at a position
KmerAt(p) == SubSeq(sequences[p[1]], p[2] + 1, p[2] + k)

\* the k-mers of the input, each with the number of positions it occurs at
ExactCount ==
    [km \in { KmerAt(p) : p \in Positions }
        |-> Cardinality({ p \in Positions : KmerAt(p) = km })]

\* 1 <= k <= the length of every sequence
KValid == \A i \in Units : k <= Len(sequences[i])

\* FASTQ records: the lines strictly between an '@' line and the next '+'
\* line, concatenated
RECURSIVE FastqRecords(_, _, _, _)
FastqRecords(lines, i, inRecord, buffer) ==
    IF i > Len(lines)
      THEN << >>
      ELSE IF ~inRecord
             THEN FastqRecords(lines, i + 1, starts_with(lines[i], "@"), << >>)
             ELSE IF starts_with(lines[i], "+")
                    THEN << buffer >> \o FastqRecords(lines, i + 1, FALSE, << >>)
                    ELSE FastqRecords(lines, i + 1, TRUE, buffer \o lines[i])

\* a FASTA file without sequence content: marker lines and empty lines only
NoContent(f) == \A i \in 1..Len(f.lines) : starts_with(f.lines[i], ">") \/ f.lines[i] = << >>

-----------------------------------------------------------------------------
(* The claims.                                                             *)

\* C1: for 1 <= k <= the length of every sequence, the map count_kmers
\* returns holds exactly the k-mers of the input, each with the number of
\* pairs (sequence, offset j), 0 <= j <= len - k, at which it occurs.
C1_ExactCounts == (pc = "returned" /\ KValid) => result = ExactCount

\* C2: a run that returns, with any pool size and any partition and
\* interleaving, returns the map that processing the sequences one at a time
\* gives, in each of the orders of Orders.
C2_Deterministic ==
    pc = "returned" => \A order \in Orders : result = Sequential(order, N)

C2_Witness ==
    /\ pc = "returned"
    /\ threads >= 2
    /\ \A t \in Workers : chunk[t].lo < chunk[t].hi
    /\ Cardinality(DOMAIN result) >= 2
    /\ \E km \in DOMAIN result : result[km] >= 3

\* C3: at most one worker is inside the fold; the global map changes only by
\* a step of the worker holding the lock; the lock is taken with the complete
\* local map of a unit not folded before, and it is given up only when that
\* local map is drained.
C3_AtomicFold ==
    /\ [](\A t, u \in DOMAIN worker : (InFold(t) /\ InFold(u)) => t = u)
    /\ [](\A t \in DOMAIN worker : InFold(t) <=> lockHolder = t)
    /\ [][ /\ kmer_hashmap' # kmer_hashmap =>
                \E t \in DOMAIN worker :
                    /\ lockHolder = t /\ lockHolder' = t
                    /\ worker[t].pc = "add"
                    /\ \A u \in DOMAIN worker \ {t} : worker'[u] = worker[u]
           /\ \A t \in DOMAIN worker :
                /\ (lockHolder # t /\ lockHolder' = t) =>
                      /\ worker[t].i \notin folded
                      /\ worker'[t].local_map = local_count(sequences[worker[t].i], k)
                /\ (lockHolder = t /\ lockHolder' # t) =>
                      /\ lockHolder' = 0
                      /\ worker[t].pc = "fold"
                      /\ worker[t].local_map = EmptyMap
                      /\ folded' = folded \cup {worker[t].i} ]_vars

C3_Witness ==
    \E t, u \in DOMAIN worker :
        /\ t # u
        /\ worker[t].pc = "add"
        /\ worker[t].local_map # EmptyMap
        /\ worker[u].pc = "lock"
        /\ kmer_hashmap # EmptyMap

\* C4: count_kmers has returned only when every unit has ended its fold: no
\* unit is pending, counting, folding or skipped, and the lock is free.
C4_JoinBarrier ==
    pc = "returned" =>
        /\ folded = Units
        /\ lockHolder = 0
        /\ \A t \in Workers : worker[t].pc = "finished" /\ worker[t].i = chunk[t].hi + 1

C4_Witness ==
    /\ pc = "returned"
    /\ N = 10
    /\ folded = 1..10
    /\ threads >= 2
    /\ \A t \in Workers : chunk[t].lo <= chunk[t].hi

\* C5: after the run every global count is the sum over the units of the
\* count in the unit's local map, and the sequences "AAAA", "TAAA" with k = 2
\* give {"AA": 5, "TA": 1}.
C5_FoldSum ==
    RunOver =>
        /\ pc = "returned" => result = SumLocal(Units)
        /\ (sequences = << AAAA, TAAA >> /\ k = 2) =>
              /\ pc = "returned"
              /\ result = (AA :> 5) @@ (TA :> 1)

\* C6: a sequence shorter than k makes no worker fault: its unit folds an
\* empty local map and the run goes on.
C6_ShortSequence ==
    \A t \in DOMAIN worker :
        (worker[t].i \in Units /\ k > Len(sequences[worker[t].i])) =>
            /\ worker[t].fault # "range"
            /\ worker[t].pc \in {"fold", "add"} => worker[t].local_map = EmptyMap

\* C7: with 1 to 9 sequences no worker faults in the milestone test, and the
\* run is not aborted.
C7_SmallTotal ==
    (ReadDone /\ N \in 1..9) =>
        /\ \A t \in DOMAIN worker : worker[t].fault # "div_zero"
        /\ pc # "panicked"

\* C8: an input without records gives the empty sequence list; with the empty
\* list no closure body runs, nothing faults, and the map returned is empty.
C8_EmptyInput ==
    ReadDone =>
        /\ (ends_with(file.path, "a") /\ NoContent(file)) => sequences = << >>
        /\ sequences = << >> =>
              /\ progress = 0
              /\ printed = EmptyMap
              /\ folded = {}
              /\ kmer_hashmap = EmptyMap
              /\ \A t \in DOMAIN worker : worker[t].pc = "finished"
              /\ pc # "panicked"
              /\ pc = "returned" => result = EmptyMap

C8_Witness ==
    /\ pc = "returned"
    /\ file.lines = << >>
    /\ sequences = << >>
    /\ result = EmptyMap

\* C9: a worker that faults does not hold the lock and does not poison it,
\* its unit is not folded, the global map is the sum of the local maps of the
\* folded units whenever the lock is free, and count_kmers does not return
\* when a worker has faulted.
C9_FaultContained ==
    /\ ~poisoned
    /\ \A t \in DOMAIN worker :
          worker[t].pc = "panicked" =>
              /\ lockHolder # t
              /\ worker[t].i \notin folded
              /\ pc # "returned"
    /\ (ReadDone /\ lockHolder = 0) => kmer_hashmap = SumLocal(folded)
    /\ pc = "returned" => folded = Units

C9_Witness ==
    /\ pc = "panicked"
    /\ failure = "worker"
    /\ \E t, u \in DOMAIN worker :
          /\ worker[t].fault = "range"
          /\ worker[u].pc = "finished"
          /\ chunk[u].lo <= chunk[u].hi
          /\ chunk[u].hi \in folded
    /\ kmer_hashmap # EmptyMap

\* C10: FASTQ ingestion emits one sequence per record, the concatenation of
\* the lines strictly between the '@' line and the next '+' line.
C10_FastqRecords ==
    (ReadDone /\ ends_with(file.path, "q")) =>
        sequences = FastqRecords(file.lines, 1, FALSE, << >>)


-----------------------------------------------------------------------------
(* The readers.                                                            *)

\* FASTA records: each marker line opens a record, the non-marker lines up
\* to the next marker or the end are its content; a record without content
\* is dropped, and so are the lines before the first marker
RECURSIVE FastaRecords(_, _, _, _)
FastaRecords(lines, i, open, buffer) ==
    LET emit == IF open /\ buffer # << >> THEN << buffer >> ELSE << >>
    IN  IF i > Len(lines)
          THEN emit
          ELSE IF starts_with(lines[i], ">")
                 THEN emit \o FastaRecords(lines, i + 1, TRUE, << >>)
                 ELSE FastaRecords(lines, i + 1, open,
                                   IF open THEN buffer \o lines[i] ELSE << >>)

\* the FASTA reader has returned
FastaDone == ReadDone /\ ends_with(file.path, "a")

\* the last n elements of a sequence
LastN(seq, n) == SubSeq(seq, Len(seq) - n + 1, Len(seq))

\* C11: after FASTA ingestion the records of the input, in order, each the
\* concatenation of its non-marker lines and none of them empty, are the end
\* of the emitted list, and the whole of it when no content precedes the
\* first marker; no emitted sequence is empty.
C11_FastaRecords ==
    FastaDone =>
        LET records == FastaRecords(file.lines, 1, FALSE, << >>)
        IN  /\ \A i \in 1..Len(sequences) : sequences[i] # << >>
            /\ Len(records) <= Len(sequences)
            /\ LastN(sequences, Len(records)) = records
            /\ (file.lines = << >> \/ starts_with(file.lines[1], ">")) =>
                  sequences = records

C11_Witness ==
    /\ FastaDone
    /\ file.lines = << << ">" >>, << "A" >>, << "T" >>, << ">" >> >>
    /\ sequences = << AT >>


\* C12: in FASTA mode the non-marker lines before the first marker line are
\* part of no emitted sequence, and an input without a marker line gives the
\* empty list.
C12_LeadingIgnored ==
    FastaDone =>
        /\ sequences = FastaRecords(file.lines, 1, FALSE, << >>)
        /\ (\A i \in 1..Len(file.lines) : ~starts_with(file.lines[i], ">")) =>
              sequences = << >>


\* the last character of the path, "" for the empty path
LastChar == IF file.path = << >> THEN "" ELSE file.path[Len(file.path)]

\* C13: the reader is chosen by the last character of the path alone: 'a'
\* starts the FASTA reader, 'q' the FASTQ reader, and any other path fails
\* with the format error before a line is read, a sequence is emitted or the
\* global map, the counter or a worker is touched.
C13_FormatByLastChar ==
    /\ [][pc = "get_sequences" =>
            /\ LastChar = "a" => pc' = "fasta"
            /\ LastChar = "q" => pc' = "fastq"
            /\ LastChar \notin {"a", "q"} => (pc' = "panicked" /\ failure' = "format")
            /\ UNCHANGED << readerVars, poolVars >>]_vars
    /\ [](pc = "fasta" => LastChar = "a")
    /\ [](pc = "fastq" => LastChar = "q")
    /\ [](ReadDone => LastChar \in {"a", "q"})
    /\ [](failure = "format" =>
            /\ LastChar \notin {"a", "q"}
            /\ pc = "panicked"
            /\ li = 1 /\ current_sequence = << >> /\ sequences = << >>
            /\ kmer_hashmap = EmptyMap /\ progress = 0 /\ printed = EmptyMap
            /\ worker = << >> /\ folded = {} /\ lockHolder = 0)

C13_Witness ==
    /\ failure = "format"
    /\ contains(file.path, "a")
    /\ contains(file.path, "q")
    /\ file.lines # << >>


\* the part line i plays in a FASTQ file: the identifier of a record ("id"),
\* sequence content ("seq"), the separator ("sep"), a quality line ("qual"),
\* or a line outside every record ("none").  The line after a separator is a
\* quality line whatever its content; later lines are quality lines up to
\* the next line starting with '@'.
RECURSIVE FastqRole(_, _)
FastqRole(lines, i) ==
    LET prev == IF i = 1 THEN "none" ELSE FastqRole(lines, i - 1)
    IN  IF prev = "sep"
          THEN "qual"
          ELSE IF prev \in {"id", "seq"}
                 THEN IF starts_with(lines[i], "+") THEN "sep" ELSE "seq"
                 ELSE IF starts_with(lines[i], "@") THEN "id" ELSE prev

\* C14: in FASTQ mode the step that reads a quality line leaves the sequence
\* buffer as it is and does not open a record, also when the line starts
\* with '@'.
C14_QualityNotContent ==
    [][(pc = "fastq" /\ li <= Len(file.lines) /\ li' = li + 1
          /\ FastqRole(file.lines, li) = "qual") =>
            (current_sequence' = current_sequence /\ read' = FALSE)]_vars


-----------------------------------------------------------------------------
(* Progress reporting.                                                     *)

\* C15: every milestone value printed is at most the number of units that
\* have completed (counted and folded).
C15_MilestoneCountsCompleted ==
    \A m \in DOMAIN printed : Cardinality(folded) >= m

\* the multiples of d among 1..n
Multiples(d, n) == { m \in 1..n : m % d = 0 }

\* N / 10 rounded up
CeilTenth == (N + 9) \div 10

\* C16 as stated: with N >= 10 the values printed are multiples of
\* ceil(N/10), each printed once, at most 10 of them, and all of them once
\* the run has returned.
C16_CeilMilestones ==
    (ReadDone /\ N >= 10) =>
        /\ DOMAIN printed \subseteq Multiples(CeilTenth, progress)
        /\ \A m \in DOMAIN printed : printed[m] = 1
        /\ Cardinality(DOMAIN printed) <= 10
        /\ pc = "returned" => DOMAIN printed = Multiples(CeilTenth, N)

\* C16 amended: with N >= 10 the values printed are multiples of N div 10
\* (rounded down) among the counter values taken, each printed once, at most
\* N of them, and all the multiples up to N once the run has returned.
C16_FloorMilestones ==
    (ReadDone /\ N >= 10) =>
        /\ DOMAIN printed \subseteq Multiples(N \div 10, progress)
        /\ \A m \in DOMAIN printed : printed[m] = 1
        /\ Cardinality(DOMAIN printed) <= N
        /\ pc = "returned" => DOMAIN printed = Multiples(N \div 10, N)

C16_Witness ==
    /\ pc = "returned"
    /\ N = 11
    /\ DOMAIN printed = 1..11
    /\ threads >= 2


-----------------------------------------------------------------------------
(* Locking discipline and the global map.                                  *)

\* C17: a worker holds the lock only inside the fold, never while it updates
\* the counter, counts windows or has left its loop; it takes the lock from
\* the point after its local map is complete and gives it up when it goes on
\* to its next unit; and the only step of a worker that can be kept waiting
\* is lock(), and only while the lock is held.
C17_BlocksOnlyInFold ==
    /\ [](\A t \in DOMAIN worker :
            worker[t].pc \in {"next", "count", "lock", "finished", "panicked"} =>
                lockHolder # t)
    /\ [](pc = "for_each" =>
            \A t \in DOMAIN worker :
                /\ worker[t].pc = "next" => ENABLED Progress(t)
                /\ worker[t].pc = "count" => ENABLED Count(t)
                /\ worker[t].pc = "fold" => ENABLED (FoldEntry(t) \/ Unlock(t))
                /\ worker[t].pc = "add" => ENABLED FoldAdd(t)
                /\ (worker[t].pc = "lock" /\ lockHolder = 0) => ENABLED Lock(t))
    /\ [][\A t \in DOMAIN worker :
            /\ (lockHolder # t /\ lockHolder' = t) =>
                  /\ worker[t].pc = "lock"
                  /\ worker[t].local_map = local_count(sequences[worker[t].i], k)
                  /\ worker'[t].i = worker[t].i
            /\ (lockHolder = t /\ lockHolder' # t) =>
                  /\ worker'[t].i = worker[t].i + 1
                  /\ worker'[t].pc \in {"next", "finished"}
            /\ (worker[t].pc \in {"next", "count"} /\ worker'[t] # worker[t]) =>
                  (lockHolder # t /\ lockHolder' # t) ]_vars

C17_Witness ==
    \E t, u \in DOMAIN worker :
        /\ lockHolder = t
        /\ worker[t].pc = "fold"
        /\ worker[u].pc = "count"
        /\ worker[u].i > chunk[u].lo


\* C18: whenever no worker is inside the fold, the global map is the
\* key-wise sum of the local maps of the units folded so far; a worker inside
\* the fold folds a unit not folded before and the folded units grow by one
\* unit at a time; no key leaves the global map and no count decreases.
C18_GlobalIsSumOfFolded ==
    /\ []((ReadDone /\ \A t \in DOMAIN worker : ~InFold(t)) =>
             kmer_hashmap = SumLocal(folded))
    /\ [](\A t \in DOMAIN worker : InFold(t) => worker[t].i \notin folded)
    /\ [][/\ folded' # folded =>
                \E i \in Units \ folded : folded' = folded \cup {i}
          /\ \A key \in DOMAIN kmer_hashmap :
                /\ key \in DOMAIN kmer_hashmap'
                /\ kmer_hashmap'[key] >= kmer_hashmap[key] ]_vars

C18_Witness ==
    /\ pc = "for_each"
    /\ threads >= 2
    /\ \A t \in DOMAIN worker : ~InFold(t) /\ worker[t].i > chunk[t].lo
    /\ \E t \in DOMAIN worker : worker[t].pc = "lock"
    /\ Cardinality(folded) >= 3
    /\ \E key \in DOMAIN kmer_hashmap : kmer_hashmap[key] >= 2


\* a string of length k that occurs in some input sequence
IsKmer(key) ==
    /\ Len(key) = k
    /\ \E i \in Units : \E j \in 1..(Len(sequences[i]) - k + 1) :
          SubSeq(sequences[i], j, j + k - 1) = key

\* every key of the map is a k-mer of the input and every count is positive
WellFormed(map) == \A key \in DOMAIN map : IsKmer(key) /\ map[key] >= 1

-----------------------------------------------------------------------------
(* Termination.                                                            *)

\* the input is free of faults: at least ten sequences, none shorter than k
FaultFree == ReadDone /\ N >= 10 /\ KValid

\* the units whose closure has taken its counter value
Started ==
    { i \in Units :
        \E t \in DOMAIN worker :
            /\ chunk[t].lo <= i
            /\ \/ i < worker[t].i
               \/ i = worker[t].i /\ worker[t].pc \notin {"next", "finished"} }

\* C20: with a fault-free input and a fair scheduler the run ends: once the
\* input is read it stays fault-free, and from some moment on count_kmers has
\* returned with the lock released, every worker finished (none is left
\* waiting for the lock), every unit folded and the counter at N; and every
\* counter value 1..N is taken by the one unit that starts at that moment.
C20_Terminates ==
    /\ <>[](FaultFree =>
              /\ pc = "returned"
              /\ progress = N
              /\ folded = Units
              /\ lockHolder = 0
              /\ \A t \in DOMAIN worker : worker[t].pc = "finished")
    /\ [][FaultFree => FaultFree']_vars
    /\ [](FaultFree =>
            /\ progress = Cardinality(Started)
            /\ progress <= N
            /\ pc # "panicked"
            /\ \A t \in DOMAIN worker : worker[t].pc # "panicked")
    /\ [][(FaultFree /\ progress' # progress) =>
            /\ progress' = progress + 1
            /\ \E t \in DOMAIN worker :
                  /\ worker[t].pc = "next"
                  /\ worker[t].i \notin Started
                  /\ Started' = Started \cup {worker[t].i}
                  /\ \A u \in DOMAIN worker \ {t} : worker'[u] = worker[u] ]_vars

C20_Witness ==
    /\ pc = "returned"
    /\ FaultFree
    /\ N = 10
    /\ threads >= 2
    /\ progress = 10
    /\ folded = Units
    /\ \A t \in DOMAIN worker : chunk[t].lo <= chunk[t].hi

====
